---- MODULE Spec2Model ----
(***************************************************************************)
(* A model of the gwosc-catalog validator (ccverify): the strict schema    *)
(* (schema.py: dataclasses built from a JSON document), the lenient walk   *)
(* (core.py: verify_upload_schema), the value formatter                    *)
(* (schema.py: _condition_value_and_error), the construction of a value    *)
(* from samples (ParameterValue.from_series) and the logger setup of the   *)
(* command line entry point (core.py: _set_logger, main).                  *)
(*                                                                         *)
(* JSON / Python values.  A dict is a TLA+ function from key strings to    *)
(* values; every other value carries its type as the name of its only      *)
(* field: [null |-> TRUE] is None/null, [str |-> s] a string, [num |-> s]  *)
(* a number (its decimal literal), [bool |-> b] a boolean and              *)
(* [list |-> seq] a list.  A dataclass instance is the function of its     *)
(* fields plus the key "cls" naming its class.                             *)
(*                                                                         *)
(* The formatter works on exact decimals: a number is an integer count of  *)
(* units of 10^-Scale.  Of binary floating point the model keeps one       *)
(* effect: a rounding tie of a decimal that no float holds exactly goes up *)
(* or down, and the model takes both.                                      *)
(***************************************************************************)
EXTENDS Integers, Sequences, FiniteSets, TLC

VARIABLES doc, doc0, calls, strict, lenient, file, reparsed, made, fmt, logger

vars == <<doc, doc0, calls, strict, lenient, file, reparsed, made, fmt, logger>>

----------------------------------------------------------------------------
(* Bounds of the model *)

MaxPeSets == 3

MaxCalls == 2

MaxExp == 5

MaxSetups == 3

----------------------------------------------------------------------------
(* Python values *)

Null == [null |-> TRUE]

Str(s) == [str |-> s]

Num(s) == [num |-> s]

Bool(b) == [bool |-> b]

List(s) == [list |-> s]

IsList(v) == "list" \in DOMAIN v

IsNull(v) == v = Null

\* Python truthiness of a bool or None (the values is_preferred and the bound
\* flags take in the documents of the model).
Truthy(v) == IF "bool" \in DOMAIN v THEN v.bool ELSE FALSE

EmptyDict == [k \in {} |-> Null]

\* The function f on S and the sequence f of length n, built element by
\* element (an evaluated value, where a function constructor is evaluated anew
\* at each application).
RECURSIVE DictOf(_, _)
DictOf(f, S) ==
    IF S = {} THEN EmptyDict
    ELSE LET k == CHOOSE x \in S : TRUE IN (k :> f[k]) @@ DictOf(f, S \ {k})

RECURSIVE TupleOf(_, _)
TupleOf(f, n) == IF n = 0 THEN <<>> ELSE Append(TupleOf(f, n - 1), f[n])

\* d with key k set to v
With(d, k, v) == (k :> v) @@ d

\* d without key k
Without(d, k) == DictOf(d, (DOMAIN d) \ {k})

\* F(v), with v evaluated once and F's parameter standing for its value
Let(v, F(_)) == CHOOSE y \in {F(r) : r \in {v}} : TRUE

\* The outcome of a call: a value, or a raised exception.
Ok(v) == [ok |-> TRUE, val |-> v, err |-> ""]

Raise(e) == [ok |-> FALSE, val |-> Null, err |-> e]

\* A dict as a Python object reference.  own = TRUE: an object this call
\* created; own = FALSE: the caller's object, whose mutation the caller sees.
Arg(d) == [d |-> d, own |-> FALSE]

\* dict.copy(): a new dict with the same keys and values (shallow)
dict_copy_alias(r) == r

dict_copy(r) == [d |-> r.d, own |-> TRUE]

\* dict.pop(k): removes k from the object
dict_pop(r, k) == [d |-> Without(r.d, k), own |-> r.own]

\* What the caller's dict orig holds after the call worked on reference r,
\* its nested objects being those of nested (same keys as orig).
Visible(orig, nested, r) == IF r.own THEN nested ELSE r.d

\* cls(**kw): dataclass construction before __post_init__.  required: the
\* fields without default; defaults: the others with their defaults.
Dataclass(cls, required, defaults, kw) ==
    IF ~((DOMAIN kw) \subseteq (required \cup DOMAIN defaults))
    THEN Raise("TypeError: unexpected keyword argument")
    ELSE IF ~(required \subseteq DOMAIN kw)
    THEN Raise("TypeError: missing required argument")
    ELSE Ok(("cls" :> Str(cls)) @@ kw @@ defaults)

\* [F(x) for x in seq], given rs[i] = the outcome of F on seq[i], each with
\* .arg = seq[i] as the call leaves it: the comprehension stops at the first
\* element that raises, leaving the later elements untouched.
ListComp(seq, results) ==
    LET rs == TupleOf(results, Len(seq))
        bad == {i \in 1..Len(seq) : ~rs[i].ok}
        k == IF bad = {} THEN Len(seq) + 1
             ELSE CHOOSE i \in bad : \A j \in bad : i <= j
    IN [ok |-> bad = {},
        val |-> IF bad = {} THEN List(TupleOf([i \in 1..Len(seq) |-> rs[i].val], Len(seq)))
                ELSE Null,
        err |-> IF bad = {} THEN "" ELSE rs[k].err,
        arg |-> TupleOf([i \in 1..Len(seq) |-> IF i <= k THEN rs[i].arg ELSE seq[i]],
                        Len(seq))]

----------------------------------------------------------------------------
(* schema.py: ParameterValue *)

MassNames == {"chirp_mass_source", "chirp_mass", "mass_1_source",
              "mass_2_source", "total_mass_source", "final_mass_source"}

mass_units == {Str("solMass"), Str("M_sun"), Str("Msun")}

\* ParameterValue.__post_init__ without the unit check of the mass names
ParameterValue_post_init_nomass(self) ==
    IF self.parameter_name = Str("luminosity_distance") /\ self.unit # Str("Mpc")
    THEN Raise("ValueError: luminosity_distance parameter needs to have Mpc unit.")
    ELSE IF self.parameter_name = Str("far") /\ self.unit # Str("1/year")
    THEN Raise("ValueError: far parameter needs to have '1/year' unit.")
    ELSE IF Truthy(self.is_upper_bound) /\ Truthy(self.is_lower_bound)
    THEN Raise("ValueError: Both is_upper_bound and is_lower_bound set to True.")
    ELSE Ok(self)

ParameterValue_post_init(self) ==
    IF self.parameter_name \in {Str(n) : n \in MassNames} /\ self.unit \notin mass_units
    THEN Raise("ValueError: parameter needs to have one of mass_units string for unit.")
    ELSE IF self.parameter_name = Str("luminosity_distance") /\ self.unit # Str("Mpc")
    THEN Raise("ValueError: luminosity_distance parameter needs to have Mpc unit.")
    ELSE IF self.parameter_name = Str("far") /\ self.unit # Str("1/year")
    THEN Raise("ValueError: far parameter needs to have '1/year' unit.")
    ELSE IF Truthy(self.is_upper_bound) /\ Truthy(self.is_lower_bound)
    THEN Raise("ValueError: Both is_upper_bound and is_lower_bound set to True.")
    ELSE Ok(self)

ParameterValue_defaults ==
    [upper_error |-> Null, lower_error |-> Null, is_upper_bound |-> Bool(FALSE),
     is_lower_bound |-> Bool(FALSE), unit |-> Null]

\* ParameterValue(kw)
ParameterValue(kw) ==
    Let(Dataclass("ParameterValue", {"parameter_name", "decimal_places", "best"},
                  ParameterValue_defaults, kw),
        LAMBDA self : IF self.ok THEN ParameterValue_post_init(self.val) ELSE self)

----------------------------------------------------------------------------
(* Strings the code matches against a regular expression are sequences of  *)
(* characters.                                                             *)

Digits == {"0", "1", "2", "3", "4", "5", "6", "7", "8", "9"}

DigitVal(c) == CHOOSE n \in 0..9 : <<"0", "1", "2", "3", "4", "5", "6", "7", "8", "9">>[n + 1] = c

AllDigits(s, from, to) == \A i \in from..to : s[i] \in Digits

\* Python's $: the end of the string, or just before a newline that ends it
AtEnd(s, n) == Len(s) = n \/ (Len(s) = n + 1 /\ s[n + 1] = "\n")

\* re.match(r"^GW\d{6}(?:_\d{6})?$", s)         (core.py)
re_match_event_name_optional(s) ==
    /\ Len(s) >= 8
    /\ s[1] = "G" /\ s[2] = "W"
    /\ AllDigits(s, 3, 8)
    /\ \/ AtEnd(s, 8)
       \/ /\ Len(s) >= 15
          /\ s[9] = "_"
          /\ AllDigits(s, 10, 15)
          /\ AtEnd(s, 15)

\* re.match(r"^GW\d{6}_\d{6}$", s)              (schema.py)
re_match_event_name(s) ==
    /\ Len(s) >= 15
    /\ s[1] = "G" /\ s[2] = "W"
    /\ AllDigits(s, 3, 8)
    /\ s[9] = "_"
    /\ AllDigits(s, 10, 15)
    /\ AtEnd(s, 15)

\* re.match(r"^\d{4}-\d{2}-\d{2}$", s)
re_match_release_date(s) ==
    /\ Len(s) >= 10
    /\ AllDigits(s, 1, 4) /\ s[5] = "-"
    /\ AllDigits(s, 6, 7) /\ s[8] = "-"
    /\ AllDigits(s, 9, 10)
    /\ AtEnd(s, 10)

----------------------------------------------------------------------------
(* schema.py: Link, SearchResult, ParameterSet *)

WithArg(r, a) == [ok |-> r.ok, val |-> r.val, err |-> r.err, arg |-> a]

\* Link(**u)
Link(u) == Dataclass("Link", {"url", "content_type", "description"}, EmptyDict, u)

\* [ParameterValue(**p) for p in plist]
ParameterValues(plist) ==
    IF ~IsList(plist) THEN WithArg(Raise("TypeError: object is not iterable"), plist)
    ELSE Let(ListComp(plist.list,
                      [i \in 1..Len(plist.list) |->
                         WithArg(ParameterValue(plist.list[i]), plist.list[i])]),
             LAMBDA lc : WithArg(lc, List(lc.arg)))

\* [Link(**u) for u in links]
Links(links) ==
    IF ~IsList(links) THEN WithArg(Raise("TypeError: object is not iterable"), links)
    ELSE Let(ListComp(links.list,
                      [i \in 1..Len(links.list) |->
                         WithArg(Link(links.list[i]), links.list[i])]),
             LAMBDA lc : WithArg(lc, List(lc.arg)))

\* SearchResult.from_json(search); .arg is search as the call leaves it.
SearchResult_from_json(search) ==
    LET s == dict_copy(Arg(search))
    IN IF "parameters" \notin DOMAIN s.d
       THEN WithArg(Raise("KeyError: parameters"), search)
       ELSE LET s1 == dict_pop(s, "parameters")
                after == Visible(search, search, s1)
            IN Let(ParameterValues(s.d.parameters),
                   LAMBDA params :
                     IF ~params.ok THEN WithArg(params, after)
                     ELSE WithArg(Dataclass("SearchResult", {"pipeline_name", "parameters"},
                                            EmptyDict, ("parameters" :> params.val) @@ s1.d),
                                  after))

ParameterSet_defaults ==
    [data_url |-> Null, is_preferred |-> Bool(FALSE), links |-> Null]

\* ParameterSet.from_json(peset); .arg is peset as the call leaves it.
ParameterSet_from_json(peset) ==
    LET ps == dict_copy(Arg(peset))
    IN IF "parameters" \notin DOMAIN ps.d
       THEN WithArg(Raise("KeyError: parameters"), peset)
       ELSE LET ps1 == dict_pop(ps, "parameters")
                ps2 == dict_pop(ps1, "links")
                after == Visible(peset, peset, ps2)
            IN Let(ParameterValues(ps.d.parameters),
                   LAMBDA parameters :
                     IF ~parameters.ok
                     THEN WithArg(parameters, Visible(peset, peset, ps1))
                     ELSE Let(Links(IF "links" \in DOMAIN ps1.d
                                    THEN ps1.d.links ELSE List(<<>>)),
                              LAMBDA links :
                                IF ~links.ok THEN WithArg(links, after)
                                ELSE WithArg(Dataclass("ParameterSet",
                                                {"pe_set_name", "waveform_family", "parameters"},
                                                ParameterSet_defaults,
                                                ("parameters" :> parameters.val)
                                                  @@ ("links" :> links.val) @@ ps2.d),
                                             after)))

----------------------------------------------------------------------------
(* schema.py: Event *)

allowed_detectors_schema == {Str("H1"), Str("L1"), Str("V1"), Str("K1"), Str("G1")}

\* np.count_nonzero([pe_set.is_preferred for pe_set in pe_sets])
n_preferred(pe_sets) ==
    Cardinality({i \in 1..Len(pe_sets) : Truthy(pe_sets[i].is_preferred)})

\* Event.__post_init__ with the preferred sets counted as "at least one"
Event_post_init_atleastone(self) ==
    IF "str" \notin DOMAIN self.event_name
    THEN Raise("TypeError: expected string or bytes-like object")
    ELSE IF ~re_match_event_name(self.event_name.str)
    THEN Raise("ValueError: Event name should have format GWYYMMDD_HHMMSS")
    ELSE IF ~IsNull(self.detectors)
            /\ \E i \in 1..Len(self.detectors.list) :
                  self.detectors.list[i] \notin allowed_detectors_schema
    THEN Raise("ValueError: Unrecognized detector short name")
    ELSE IF Len(self.search.list) = 0
    THEN Raise("ValueError: Search list is empty.")
    ELSE IF IsNull(self.pe_sets) THEN Ok(self)
    ELSE IF Len(self.pe_sets.list) = 0 THEN Ok(self)
    ELSE IF n_preferred(self.pe_sets.list) < 1
    THEN Raise("ValueError: Exactly one of the pe_sets should be preferred")
    ELSE Ok(self)

\* Event.__post_init__ without the check of the search list
Event_post_init_nosearch(self) ==
    IF "str" \notin DOMAIN self.event_name
    THEN Raise("TypeError: expected string or bytes-like object")
    ELSE IF ~re_match_event_name(self.event_name.str)
    THEN Raise("ValueError: Event name should have format GWYYMMDD_HHMMSS")
    ELSE IF ~IsNull(self.detectors)
            /\ \E i \in 1..Len(self.detectors.list) :
                  self.detectors.list[i] \notin allowed_detectors_schema
    THEN Raise("ValueError: Unrecognized detector short name")
    ELSE IF IsNull(self.pe_sets) THEN Ok(self)
    ELSE IF Len(self.pe_sets.list) = 0 THEN Ok(self)
    ELSE IF n_preferred(self.pe_sets.list) # 1
    THEN Raise("ValueError: Exactly one of the pe_sets should be preferred")
    ELSE Ok(self)

Event_post_init(self) ==
    IF "str" \notin DOMAIN self.event_name
    THEN Raise("TypeError: expected string or bytes-like object")
    ELSE IF ~re_match_event_name(self.event_name.str)
    THEN Raise("ValueError: Event name should have format GWYYMMDD_HHMMSS")
    ELSE IF ~IsNull(self.detectors)
            /\ \E i \in 1..Len(self.detectors.list) :
                  self.detectors.list[i] \notin allowed_detectors_schema
    THEN Raise("ValueError: Unrecognized detector short name")
    ELSE IF Len(self.search.list) = 0
    THEN Raise("ValueError: Search list is empty.")
    ELSE IF IsNull(self.pe_sets) THEN Ok(self)
    ELSE IF Len(self.pe_sets.list) = 0 THEN Ok(self)
    ELSE IF n_preferred(self.pe_sets.list) # 1
    THEN Raise("ValueError: Exactly one of the pe_sets should be preferred")
    ELSE Ok(self)

Event_defaults ==
    [gracedb_id |-> Null, pe_sets |-> Null, detectors |-> Null,
     event_description |-> Null]

\* Event(**kw)
Event(kw) ==
    Let(Dataclass("Event", {"event_name", "gps", "search"}, Event_defaults, kw),
        LAMBDA self : IF self.ok THEN Event_post_init(self.val) ELSE self)

\* [SearchResult.from_json(s) for s in searches]
SearchResults(searches) ==
    IF ~IsList(searches) THEN WithArg(Raise("TypeError: object is not iterable"), searches)
    ELSE Let(ListComp(searches.list,
                      [i \in 1..Len(searches.list) |->
                         SearchResult_from_json(searches.list[i])]),
             LAMBDA lc : WithArg(lc, List(lc.arg)))

\* [ParameterSet.from_json(pe_set) for pe_set in pe_sets] or None
ParameterSets(pe_sets) ==
    IF ~IsList(pe_sets) THEN WithArg(Raise("TypeError: object is not iterable"), pe_sets)
    ELSE Let(ListComp(pe_sets.list,
                      [i \in 1..Len(pe_sets.list) |->
                         ParameterSet_from_json(pe_sets.list[i])]),
             LAMBDA lc : IF lc.ok /\ Len(pe_sets.list) = 0 THEN WithArg(Ok(Null), pe_sets)
                         ELSE WithArg(lc, List(lc.arg)))

\* Event.from_json(event); .arg is `event` as the call leaves it.
Event_from_json(event) ==
    LET e == dict_copy(Arg(event))
    IN IF "search" \notin DOMAIN e.d
       THEN WithArg(Raise("KeyError: search"), event)
       ELSE LET e1 == dict_pop(e, "search")
                e2 == dict_pop(e1, "pe_sets")
                has == "pe_sets" \in DOMAIN e.d
            IN Let(SearchResults(e.d.search),
                   LAMBDA searches :
                     IF ~searches.ok
                     THEN WithArg(searches,
                                  Visible(event, With(event, "search", searches.arg), e2))
                     ELSE Let(ParameterSets(IF has THEN e.d.pe_sets ELSE List(<<>>)),
                              LAMBDA pe_sets :
                                LET nested1 == With(event, "search", searches.arg)
                                    nested2 == IF has THEN With(nested1, "pe_sets", pe_sets.arg)
                                               ELSE nested1
                                    after == Visible(event, nested2, e2)
                                IN IF ~pe_sets.ok THEN WithArg(pe_sets, after)
                                   ELSE WithArg(Event(("search" :> searches.val)
                                                      @@ ("pe_sets" :> pe_sets.val) @@ e2.d),
                                                after)))

----------------------------------------------------------------------------
(* schema.py: Catalog *)

\* from . import __version__
version == Str("__version__")

\* int(m) not in range(1, 13) or int(d) not in range(1, 32)
release_date_error(s) ==
    LET m == 10 * DigitVal(s[6]) + DigitVal(s[7])
        d == 10 * DigitVal(s[9]) + DigitVal(s[10])
    IN m \notin 1..12 \/ d \notin 1..31

Catalog_post_init(self) ==
    IF Len(self.events.list) = 0
    THEN Raise("ValueError: Event list is empty.")
    ELSE IF "str" \notin DOMAIN self.release_date
    THEN Raise("TypeError: expected string or bytes-like object")
    ELSE IF ~re_match_release_date(self.release_date.str)
    THEN Raise("ValueError: Catalog release_date not in YYYY-MM-DD format.")
    ELSE IF release_date_error(self.release_date.str)
    THEN Raise("ValueError: Catalog release_date error.")
    ELSE Ok(self)

\* The UserWarning of Catalog.__post_init__
schema_version_warning(self) == self.schema_version # version

Catalog_defaults == [schema_version |-> version]

\* Catalog(**kw)
Catalog(kw) ==
    Let(Dataclass("Catalog",
                  {"catalog_name", "release_date", "catalog_description", "doi", "events"},
                  Catalog_defaults, kw),
        LAMBDA self : IF self.ok THEN Catalog_post_init(self.val) ELSE self)

\* [Event.from_json(event) for event in events]
Events(events) ==
    IF ~IsList(events) THEN WithArg(Raise("TypeError: object is not iterable"), events)
    ELSE Let(ListComp(events.list,
                      [i \in 1..Len(events.list) |-> Event_from_json(events.list[i])]),
             LAMBDA lc : WithArg(lc, List(lc.arg)))

\* Catalog.from_json(catalog); .arg is `catalog` as the call leaves it.
Catalog_from_json(catalog) ==
    LET c == dict_copy(Arg(catalog))
    IN IF "events" \notin DOMAIN c.d
       THEN WithArg(Raise("KeyError: events"), catalog)
       ELSE LET c1 == dict_pop(c, "events")
            IN Let(Events(c.d.events),
                   LAMBDA events :
                     LET after == Visible(catalog, With(catalog, "events", events.arg), c1)
                     IN IF ~events.ok THEN WithArg(events, after)
                        ELSE WithArg(Catalog(("events" :> events.val) @@ c1.d), after))

\* dataclasses.asdict(obj), as json.dump writes it and json.load reads it back:
\* every field of every record, nested records and lists included.
RECURSIVE asdict(_)
asdict(v) ==
    IF "list" \in DOMAIN v
    THEN List(TupleOf([i \in 1..Len(v.list) |-> asdict(v.list[i])], Len(v.list)))
    ELSE IF "cls" \in DOMAIN v
    THEN DictOf([k \in (DOMAIN v) \ {"cls"} |-> asdict(v[k])], (DOMAIN v) \ {"cls"})
    ELSE v

\* validate_schema(upload_json): True, or the exception of Catalog.from_json
validate_schema(upload_json) ==
    Let(Catalog_from_json(upload_json),
        LAMBDA r : [ok |-> r.ok, ret |-> r.ok, err |-> r.err, cat |-> r.val, arg |-> r.arg,
                    warned |-> r.ok /\ schema_version_warning(r.val)])

----------------------------------------------------------------------------
(* core.py: verify_upload_schema.  A run is [log, raised, ret]: the lines   *)
(* logged so far, whether an exception ended it, and the value returned.   *)

Warning(msg, keys) == [lvl |-> "WARNING", msg |-> msg, keys |-> keys]

Info(msg) == [lvl |-> "INFO", msg |-> msg, keys |-> {}]

Range(seq) == {seq[i] : i \in 1..Len(seq)}

\* for akey in mandatory_keys: if akey not in d.keys(): logger.warning(msg)
MissingKeys(mandatory_keys, d, msg) ==
    LET missing == SelectSeq(mandatory_keys, LAMBDA k : k \notin DOMAIN d)
    IN [i \in 1..Len(missing) |-> Warning(msg, {missing[i]})]

\* other_keys = set(d.keys()) - known; if len(other_keys) != 0: logger.warning
OtherKeys(d, known) ==
    LET other_keys == (DOMAIN d) \ known
    IN IF other_keys # {} THEN <<Warning("Warning - Unrecognized keys", other_keys)>>
       ELSE <<>>

RECURSIVE Flatten(_)
Flatten(seqs) == IF seqs = <<>> THEN <<>> ELSE Head(seqs) \o Flatten(Tail(seqs))

\* A loop whose i-th iteration logs runs[i].log and may raise: the lines of the
\* iterations up to the first that raises.
Loop(runs) ==
    LET bad == {i \in 1..Len(runs) : runs[i].raised}
        k == IF bad = {} THEN Len(runs) ELSE CHOOSE i \in bad : \A j \in bad : i <= j
    IN [log |-> Flatten([i \in 1..k |-> runs[i].log]), raised |-> bad # {}]

Then(log, run) == [log |-> log \o run.log, raised |-> run.raised]

Logged(log) == [log |-> log, raised |-> FALSE]

Raised(log) == [log |-> log, raised |-> TRUE]

pe_mandatory_keys ==
    <<"parameter_name", "median", "upper_95", "lower_05", "upper_limit",
      "lower_limit", "sigfigs", "unit">>

allowed_names ==
    {"mass_1_source", "mass_2_source", "network_matched_filter_snr",
     "luminosity_distance", "chi_eff", "total_mass_source", "chirp_mass_source",
     "chirp_mass", "redshift", "far", "p_astro", "final_mass_source"}

\* the body of "for pe in params"
verify_pe(pe) ==
    Logged(MissingKeys(pe_mandatory_keys, pe, "PE missing mandatory key")
           \o (IF "name" \in DOMAIN pe /\ pe.name \notin {Str(n) : n \in allowed_names}
               THEN <<Warning("Unrecognized PE name", {})>> ELSE <<>>)
           \o OtherKeys(pe, Range(pe_mandatory_keys)))

peset_mandatory_keys == <<"pe_set_name", "waveform_family", "data_url", "parameters">>

peset_optional_keys == {"links"}

\* the body of "for peset in pe_sets"
verify_peset(peset) ==
    LET missing == MissingKeys(peset_mandatory_keys, peset, "PE Set missing mandatory key")
    IN IF "parameters" \notin DOMAIN peset THEN Logged(missing)
       ELSE LET other == OtherKeys(peset, Range(peset_mandatory_keys) \cup peset_optional_keys)
                params == peset.parameters
            IN IF ~IsList(params)
               THEN Raised(missing \o other)
               ELSE IF Len(params.list) = 0
               THEN Logged(missing \o other \o <<Warning("Empty list of parameters.", {})>>)
               ELSE Then(missing \o other,
                         Loop([i \in 1..Len(params.list) |-> verify_pe(params.list[i])]))

event_mandatory_keys ==
    <<"event_name", "gps", "event_description", "detectors", "pe_sets", "search">>

allowed_detectors == {Str("H1"), Str("L1"), Str("V1"), Str("G1"), Str("K1")}

\* the event loop up to "if 'pe_sets' not in event.keys()", the unusual-name
\* check reading the key named by name_key
verify_event_head(event, name_key) ==
    LET missing == MissingKeys(event_mandatory_keys, event, "Event missing mandatory key")
    IN IF name_key \in DOMAIN event /\ "str" \notin DOMAIN event[name_key]
       THEN Raised(missing)
       ELSE LET name == IF name_key \in DOMAIN event
                           /\ ~re_match_event_name_optional(event[name_key].str)
                        THEN <<Warning("Warning: Unusual name for event", {})>> ELSE <<>>
            IN IF "detectors" \notin DOMAIN event THEN Logged(missing \o name)
               ELSE LET detectors == event.detectors
                    IN IF ~IsList(detectors) THEN Raised(missing \o name)
                       ELSE LET dets == SelectSeq(detectors.list,
                                                  LAMBDA det : det \notin allowed_detectors)
                            IN Logged(missing \o name
                                 \o (IF Len(detectors.list) = 0
                                     THEN <<Warning("Empty list of detectors.", {})>> ELSE <<>>)
                                 \o [i \in 1..Len(dets) |->
                                       Warning("Unrecognized detector", {dets[i].str})])

\* the body of "for event in events"
verify_event(event) ==
    LET head == verify_event_head(event, "name")
    IN IF head.raised \/ "pe_sets" \notin DOMAIN event THEN head
       ELSE LET other == OtherKeys(event, Range(event_mandatory_keys))
                pe_sets == event.pe_sets
            IN IF ~IsList(pe_sets) THEN Raised(head.log \o other)
               ELSE IF Len(pe_sets.list) = 0
               THEN Logged(head.log \o other \o <<Warning("Empty list of PE sets.", {})>>)
               ELSE Then(head.log \o other,
                         Loop([i \in 1..Len(pe_sets.list) |-> verify_peset(pe_sets.list[i])]))

catalog_mandatory_keys == <<"catalog_name", "catalog_description", "doi", "events">>

NoRet == [none |-> TRUE]

verify_upload_schema(newcat) ==
    LET top == MissingKeys(catalog_mandatory_keys, newcat, "Mandatory key not found.")
               \o OtherKeys(newcat, Range(catalog_mandatory_keys))
    IN IF "events" \notin DOMAIN newcat
       THEN [log |-> top, raised |-> FALSE, ret |-> Bool(FALSE)]
       ELSE LET events == newcat.events
            IN IF ~IsList(events)
               THEN [log |-> top, raised |-> TRUE, ret |-> NoRet]
               ELSE IF Len(events.list) = 0
               THEN [log |-> top \o <<Warning("No events found on events key.", {})>>,
                     raised |-> FALSE, ret |-> Bool(FALSE)]
               ELSE LET walk == Loop([i \in 1..Len(events.list) |->
                                        verify_event(events.list[i])])
                    IN IF walk.raised
                       THEN [log |-> top \o walk.log, raised |-> TRUE, ret |-> NoRet]
                       ELSE [log |-> top \o walk.log \o <<Info("Verification finalized.")>>,
                             raised |-> FALSE, ret |-> Bool(TRUE)]

----------------------------------------------------------------------------
(* The documents of the model: the examples of tests/test_validation.py    *)
(* and tests/test_schema.py and their variations.                          *)

NameLong == <<"G", "W", "2", "4", "1", "2", "3", "0", "_", "0", "1", "0", "0", "0", "0">>

NameShort == <<"G", "W", "1", "5", "0", "9", "1", "4">>

Names ==
    {NameLong, NameShort, NameLong \o <<"\n">>,
     <<"S", "1", "2", "3", "4", "8", "3">>,
     <<"G", "W", "2", "4", "1", "2", "3", "0", "_", "0", "1", "0", "0">>,
     <<"G", "W", "2", "4", "1", "2", "3", "0", "-", "0", "1", "0", "0", "0", "0">>,
     <<"g", "w", "1", "5", "0", "9", "1", "4">>,
     <<"G", "W", "1", "5", "0", "9", "1", "4", "a">>}

far_example ==
    [parameter_name |-> Str("far"), best |-> Num("0.00001"),
     is_upper_bound |-> Bool(TRUE), decimal_places |-> Num("5"), unit |-> Str("1/year")]

pastro_example ==
    [parameter_name |-> Str("pastro"), best |-> Num("0.99"),
     is_lower_bound |-> Bool(TRUE), decimal_places |-> Num("2")]

pe_mass1_example ==
    [parameter_name |-> Str("mass_1_source"), best |-> Num("3.34"),
     upper_error |-> Num("0.01"), lower_error |-> Num("0.01"),
     is_upper_bound |-> Bool(FALSE), is_lower_bound |-> Bool(FALSE),
     decimal_places |-> Num("2"), unit |-> Str("M_sun")]

pe_distance_example ==
    [parameter_name |-> Str("luminosity_distance"), best |-> Num("130"),
     upper_error |-> Num("5"), lower_error |-> Num("2"),
     is_upper_bound |-> Bool(FALSE), is_lower_bound |-> Bool(FALSE),
     decimal_places |-> Num("0"), unit |-> Str("Mpc")]

link_example ==
    [url |-> Str("https://example.com"), content_type |-> Str("posterior_samples"),
     description |-> Str("string")]

search_example ==
    [pipeline_name |-> Str("string"), parameters |-> List(<<far_example, pastro_example>>)]

\* pe_set_example with its parameters, without the keys is_preferred and links
pe_set_example ==
    [pe_set_name |-> Str("string"), waveform_family |-> Str("IMRPhenomPv3HM"),
     data_url |-> Str("https://zenodo.org/"),
     parameters |-> List(<<pe_mass1_example, pe_distance_example>>)]

\* is_preferred of a PE set: the key omitted, true or false
Preferred == {"omitted", "true", "false"}

WithPreferred(peset, p) ==
    IF p = "omitted" THEN peset ELSE ("is_preferred" :> Bool(p = "true")) @@ peset

\* The pe_sets lists of up to MaxPeSets sets, by their is_preferred
PeSetLists ==
    UNION {{[i \in 1..n |-> WithPreferred(("links" :> List(<<link_example>>)) @@ pe_set_example,
                                          f[i])] :
               f \in [1..n -> Preferred]} : n \in 0..MaxPeSets}

\* event_example with a search and one preferred PE set
event_example ==
    [event_name |-> Str(NameLong), gps |-> Num("1234567890.1"),
     event_description |-> Str("string or null"),
     detectors |-> List(<<Str("H1"), Str("L1")>>),
     gracedb_id |-> Str("S231001ab"),
     search |-> List(<<search_example>>),
     pe_sets |-> List(<<WithPreferred(("links" :> List(<<>>)) @@ pe_set_example, "true")>>)]

\* Events that break several rules at once
BrokenEvents ==
    {With(With(event_example, "event_name", Str(NameShort)), "search", List(<<>>)),
     With(With(event_example, "search", List(<<>>)), "pe_sets", List(<<pe_set_example>>)),
     With(Without(Without(event_example, "gps"), "pe_sets"), "name", Str(NameShort)),
     With(With(event_example, "detectors", Null), "search", List(<<>>)),
     With(With(event_example, "detectors", List(<<Str("HANFORD")>>)),
          "pe_sets", List(<<pe_set_example, pe_set_example>>))}

EventChoices ==
    {With(event_example, "pe_sets", List(l)) : l \in PeSetLists}
    \cup {With(Without(event_example, "pe_sets"), "event_name", Str(n)) : n \in Names}
    \cup {With(event_example, "name", Str(n)) : n \in Names}
    \cup {With(event_example, "detectors", d) :
             d \in {Null, List(<<>>), List(<<Str("HANFORD")>>),
                    List(<<Str("H1"), Str("V1"), Str("K1"), Str("G1")>>)}}
    \cup {With(event_example, "search", l) :
             l \in {List(<<>>), List(<<search_example, search_example>>),
                    List(<<Without(search_example, "parameters")>>),
                    List(<<With(search_example, "parameters", List(<<>>))>>),
                    List(<<With(search_example, "parameters",
                                List(<<Without(far_example, "unit")>>))>>)}}
    \cup {With(event_example, "pe_sets", l) :
             l \in {Null,
                    List(<<With(pe_set_example, "is_preferred", Bool(TRUE))>>),
                    List(<<Without(With(pe_set_example, "is_preferred", Bool(TRUE)),
                                   "data_url")>>),
                    List(<<With(With(pe_set_example, "is_preferred", Bool(TRUE)),
                                "parameters", List(<<>>))>>),
                    List(<<With(With(pe_set_example, "is_preferred", Bool(TRUE)),
                                "parameters",
                                List(<<Without(pe_mass1_example, "unit")>>))>>),
                    List(<<With(With(pe_set_example, "is_preferred", Bool(TRUE)),
                                "links", List(<<Without(link_example, "url")>>))>>),
                    List(<<Without(With(pe_set_example, "is_preferred", Bool(TRUE)),
                                   "parameters")>>)}}
    \cup {Without(event_example, k) :
             k \in {"pe_sets", "detectors", "event_description", "gracedb_id", "search",
                    "gps", "event_name"}}
    \cup BrokenEvents
    \cup {event_example}

catalog_example ==
    [schema_version |-> version, catalog_name |-> Str("string"),
     catalog_description |-> Str("string"), doi |-> Str("https://doi.org/12345/"),
     events |-> List(<<>>),
     release_date |-> Str(<<"2", "0", "2", "4", "-", "0", "2", "-", "0", "4">>)]

EventLists ==
    {<<>>}
    \cup {<<e>> : e \in EventChoices}
    \cup {<<event_example, e>> : e \in EventChoices}
    \cup {<<e, event_example>> : e \in EventChoices}
    \cup {<<e1, e2>> : e1 \in BrokenEvents, e2 \in BrokenEvents}

CatalogChoices ==
    {With(catalog_example, "events", List(l)) : l \in EventLists}
    \cup {With(c, "events", List(l)) :
            c \in {Without(catalog_example, "schema_version"),
                   With(catalog_example, "schema_version", Str("wrong-version")),
                   Without(catalog_example, "release_date"),
                   Without(catalog_example, "doi"),
                   With(catalog_example, "comment", Str("string")),
                   With(catalog_example, "release_date",
                        Str(<<"2", "0", "2", "4", "-", "0", "1", "-", "0", "1", "T",
                              "0", "0", ":", "0", "0", ":", "0", "0">>)),
                   With(catalog_example, "release_date",
                        Str(<<"2", "0", "2", "4", "-", "1", "3", "-", "0", "4">>))},
            l \in {<<>>, <<event_example>>, <<Without(event_example, "pe_sets")>>}}
    \cup {Without(catalog_example, "events"), With(catalog_example, "events", Null),
          With(Without(catalog_example, "events"), "comment", Str("string"))}

----------------------------------------------------------------------------
(* Validation of a document: validate_schema, verify_upload_schema,        *)
(* Catalog.to_json and the strict re-parse of what it wrote.               *)

Idle == [st |-> "idle"]

\* logging.getLogger(__name__) of core.py as the process starts: no handler
\* attached, nothing logged, nothing written to standard output
NoHandler == [handlers |-> 0, log |-> <<>>, stdout |-> <<>>]

NoDoc == [none |-> TRUE]

Init ==
    /\ doc \in CatalogChoices
    /\ doc0 = doc
    /\ calls = 0
    /\ strict = [st |-> "none", err |-> "", cat |-> Null, warned |-> FALSE]
    /\ lenient = [st |-> "none", log |-> <<>>, ret |-> NoRet]
    /\ file = [written |-> FALSE, json |-> Null, from |-> Null]
    /\ reparsed = [st |-> "none", err |-> "", cat |-> Null, from |-> Null]
    /\ made = Idle
    /\ fmt = Idle
    /\ logger = NoHandler

\* validate_schema(doc)
ValidateSchema ==
    /\ calls < MaxCalls
    /\ \E r \in {validate_schema(doc)} :
          /\ doc' = r.arg
          /\ strict' = [st |-> IF r.ok THEN "ok" ELSE "raised", err |-> r.err,
                        cat |-> r.cat, warned |-> r.warned]
    /\ calls' = calls + 1
    /\ UNCHANGED <<doc0, lenient, file, reparsed, made, fmt, logger>>

\* verify_upload_schema(doc)
VerifyUploadSchema ==
    /\ lenient.st = "none"
    /\ \E r \in {verify_upload_schema(doc)} :
          lenient' = [st |-> IF r.raised THEN "raised" ELSE "returned",
                      log |-> r.log, ret |-> r.ret]
    /\ UNCHANGED <<doc, doc0, calls, strict, file, reparsed, made, fmt, logger>>

\* catalog.to_json(filename), on the record validation built
ToJson ==
    /\ strict.st = "ok"
    /\ ~file.written
    /\ file' = [written |-> TRUE, json |-> asdict(strict.cat), from |-> strict.cat]
    /\ UNCHANGED <<doc, doc0, calls, strict, lenient, reparsed, made, fmt, logger>>

\* Catalog.from_json(json.load(file))
FromJsonFile ==
    /\ file.written
    /\ reparsed.st = "none"
    /\ \E r \in {Catalog_from_json(file.json)} :
          reparsed' = [st |-> IF r.ok THEN "ok" ELSE "raised", err |-> r.err,
                       cat |-> r.val, from |-> file.from]
    /\ UNCHANGED <<doc, doc0, calls, strict, lenient, file, made, fmt, logger>>

Next == ValidateSchema \/ VerifyUploadSchema \/ ToJson \/ FromJsonFile

Spec == Init /\ [][Next]_vars

----------------------------------------------------------------------------
(* Construction of a single record: ParameterValue(kw) and               *)
(* Event.from_json(event), as the tests call them.                         *)

ParameterNames ==
    MassNames \cup {"luminosity_distance", "far", "pastro", "snr", "redshift", "chi_eff"}

\* unit: the key omitted, null, or a string
UnitChoices ==
    {"omitted", "null", "solMass", "M_sun", "Msun", "Mpc", "1/year", "kg", "msun"}

\* the bound flags: both omitted, or given
FlagChoices == {<<>>, <<TRUE, FALSE>>, <<FALSE, TRUE>>, <<TRUE, TRUE>>, <<FALSE, FALSE>>}

ParameterKw(name, unit, flags) ==
    [parameter_name |-> Str(name), best |-> Num("3.34"), decimal_places |-> Num("2")]
    @@ (IF unit = "omitted" THEN EmptyDict
        ELSE "unit" :> (IF unit = "null" THEN Null ELSE Str(unit)))
    @@ (IF flags = <<>> THEN EmptyDict
        ELSE [is_upper_bound |-> Bool(flags[1]), is_lower_bound |-> Bool(flags[2])])

ParameterKwChoices ==
    {ParameterKw(n, u, f) : n \in ParameterNames, u \in UnitChoices, f \in FlagChoices}

Input(op, arg) == [st |-> "input", op |-> op, arg |-> arg, ok |-> FALSE, err |-> "", val |-> Null]

InitRecords ==
    /\ made \in {Input("ParameterValue", kw) : kw \in ParameterKwChoices}
                \cup {Input("Event.from_json", e) : e \in EventChoices}
    /\ doc = NoDoc /\ doc0 = NoDoc /\ calls = 0
    /\ strict = [st |-> "none", err |-> "", cat |-> Null, warned |-> FALSE]
    /\ lenient = [st |-> "none", log |-> <<>>, ret |-> NoRet]
    /\ file = [written |-> FALSE, json |-> Null, from |-> Null]
    /\ reparsed = [st |-> "none", err |-> "", cat |-> Null, from |-> Null]
    /\ fmt = Idle
    /\ logger = NoHandler

\* ParameterValue(kw)
NewParameterValue ==
    /\ made.st = "input" /\ made.op = "ParameterValue"
    /\ \E r \in {ParameterValue(made.arg)} :
          made' = [made EXCEPT !.st = "done", !.ok = r.ok, !.err = r.err, !.val = r.val]
    /\ UNCHANGED <<doc, doc0, calls, strict, lenient, file, reparsed, fmt, logger>>

\* Event.from_json(event)
EventFromJson ==
    /\ made.st = "input" /\ made.op = "Event.from_json"
    /\ \E r \in {Event_from_json(made.arg)} :
          made' = [made EXCEPT !.st = "done", !.ok = r.ok, !.err = r.err, !.val = r.val]
    /\ UNCHANGED <<doc, doc0, calls, strict, lenient, file, reparsed, fmt, logger>>

NextRecords == NewParameterValue \/ EventFromJson

SpecRecords == InitRecords /\ [][NextRecords]_vars

----------------------------------------------------------------------------
(* schema.py: the value formatter.  A number is an integer count of units  *)
(* of 10^-Scale.                                                           *)

Scale == MaxExp

Abs(n) == IF n < 0 THEN -n ELSE n

Min(a, b) == IF a <= b THEN a ELSE b

Max(a, b) == IF a >= b THEN a ELSE b

\* the number of decimal digits of the integer n > 0
RECURSIVE NumDigits(_)
NumDigits(n) == IF n < 10 THEN 1 ELSE 1 + NumDigits(n \div 10)

\* A number is held exactly by a binary float when it is a multiple of
\* 2^-Scale, that is when its count of units is a multiple of 5^Scale.
IsDyadic(n) == n % (5 ^ Scale) = 0

\* n rounded to a multiple of unit.  Python rounds the binary value
\* correctly: a decimal tie that the float holds exactly goes to the even
\* multiple; one it does not hold exactly goes where the binary
\* representation lies, up or down.
round_half_even(n, unit, exact, up) ==
    LET q == n \div unit
        r == n - q * unit
    IN IF 2 * r < unit THEN q * unit
       ELSE IF 2 * r > unit THEN (q + 1) * unit
       ELSE IF exact THEN (IF q % 2 = 0 THEN q * unit ELSE (q + 1) * unit)
       ELSE IF up THEN (q + 1) * unit ELSE q * unit

\* round(val, ndigits)
round(val, ndigits, exact, up) ==
    IF ndigits >= Scale THEN val
    ELSE round_half_even(val, 10 ^ (Scale - ndigits), exact, up)

\* int(x): the fractional part dropped
int(x) == IF x >= 0 THEN x - (x % (10 ^ Scale)) ELSE -((-x) - ((-x) % (10 ^ Scale)))

\* float(f"{x:.2g}"): x rounded to two significant digits
format_2g(x, up) ==
    IF x = 0 THEN 0
    ELSE IF NumDigits(Abs(x)) <= 2 THEN x
    ELSE round_half_even(x, 10 ^ (NumDigits(Abs(x)) - 2), IsDyadic(x), up)

\* f"{x:e}".startswith("1"), x > 0: the first digit of x written with seven
\* significant digits
format_e_startswith_1(x) ==
    LET shown == IF NumDigits(x) <= 7 THEN x
                 ELSE round_half_even(x, 10 ^ (NumDigits(x) - 7), IsDyadic(x), TRUE)
    IN shown \div (10 ^ (NumDigits(shown) - 1)) = 1

\* _first_decimal_place(value) = int(np.ceil(-np.log10(np.abs(value)))): the
\* least d with 10^-d <= |value|; log10(0) is -inf, and int(inf) raises.
_first_decimal_place(value) ==
    IF value = 0 THEN Raise("OverflowError: cannot convert float infinity to integer")
    ELSE Ok(CHOOSE d \in (Scale - 9)..Scale :
               /\ 10 ^ (Scale - d) <= Abs(value)
               /\ Abs(value) \div (10 ^ (Scale - d)) < 10)

\* decimal_places of the general case without the increment for a leading 1
decimal_places_noincrement(min_error) == _first_decimal_place(min_error).val

\* decimal_places of the general case one place coarser than the first
\* decimal place of min_error
decimal_places_coarser(min_error) == _first_decimal_place(min_error).val - 1

\* decimal_places = _first_decimal_place(min_error), plus one when
\* f"{min_error:e}" starts with "1"
decimal_places_of(min_error) ==
    _first_decimal_place(min_error).val
      + (IF format_e_startswith_1(min_error) THEN 1 ELSE 0)

\* truncate(val) of _condition_value_and_error
truncate(val, decimal_places, exact, up) ==
    IF decimal_places > 0 THEN round(val, decimal_places, exact, up)
    ELSE int(round(val, decimal_places, exact, up))

\* the branch min_error == 0
degenerate_case(value, lower, upper, ties) ==
    Let(_first_decimal_place(value),
        LAMBDA fdp :
          IF ~fdp.ok THEN fdp
          ELSE Ok([median |-> format_2g(value, ties[1]),
                   lower_error |-> format_2g(-Abs(lower), ties[2]),
                   upper_error |-> format_2g(Abs(upper), ties[3]),
                   decimal_places |-> Max(0, fdp.val + 1)]))

\* the branch min_error != 0
general_case(value, lower, upper, ties) ==
    Let(decimal_places_of(Min(Abs(lower), Abs(upper))),
        LAMBDA decimal_places :
          Let(truncate(value, decimal_places, IsDyadic(value), ties[1]),
              LAMBDA truncated_value :
                Ok([best |-> truncated_value,
                    lower_error |->
                        truncate(value - Abs(lower) - truncated_value, decimal_places,
                                 IsDyadic(value) /\ IsDyadic(lower)
                                     /\ IsDyadic(truncated_value),
                                 ties[2]),
                    upper_error |->
                        truncate(value + Abs(upper) - truncated_value, decimal_places,
                                 IsDyadic(value) /\ IsDyadic(upper)
                                     /\ IsDyadic(truncated_value),
                                 ties[3]),
                    decimal_places |-> Max(0, decimal_places)])))

\* _condition_value_and_error(value, (lower, upper)); ties: for each of the
\* three roundings of the call, where a tie the float does not hold exactly
\* goes.
_condition_value_and_error(value, lower, upper, ties) ==
    IF Min(Abs(lower), Abs(upper)) = 0 THEN degenerate_case(value, lower, upper, ties)
    ELSE general_case(value, lower, upper, ties)

\* The numbers m * 10^-e with m in M and e in 0..MaxExp
Decimals(M) == {m * 10 ^ (Scale - e) : m \in M, e \in 0..MaxExp}

Values == Decimals({0, 1, 334, -125, 95})

Errors == Decimals({0, 1, 2, 9, 12, 25, -5})

NoResult == [none |-> TRUE]

InitFormat ==
    /\ fmt \in [st : {"input"}, value : Values, lower : Errors, upper : Errors,
                ok : {FALSE}, err : {""}, res : {NoResult}]
    /\ made = Idle
    /\ doc = NoDoc /\ doc0 = NoDoc /\ calls = 0
    /\ strict = [st |-> "none", err |-> "", cat |-> Null, warned |-> FALSE]
    /\ lenient = [st |-> "none", log |-> <<>>, ret |-> NoRet]
    /\ file = [written |-> FALSE, json |-> Null, from |-> Null]
    /\ reparsed = [st |-> "none", err |-> "", cat |-> Null, from |-> Null]
    /\ logger = NoHandler

\* _condition_value_and_error(value, (lower, upper))
Format ==
    /\ fmt.st = "input"
    /\ \E ties \in [1..3 -> BOOLEAN] :
       \E r \in {_condition_value_and_error(fmt.value, fmt.lower, fmt.upper, ties)} :
          fmt' = [fmt EXCEPT !.st = "done", !.ok = r.ok, !.err = r.err,
                             !.res = IF r.ok THEN r.val ELSE NoResult]
    /\ UNCHANGED <<doc, doc0, calls, strict, lenient, file, reparsed, made, logger>>

NextFormat == Format

SpecFormat == InitFormat /\ [][NextFormat]_vars

----------------------------------------------------------------------------
(* Properties of the strict construction of one Event (SpecRecords).       *)

EventMade == made.st = "done" /\ made.op = "Event.from_json"

\* The PE sets of a JSON event: none when the key is missing
PeSetsOfJson(event) ==
    IF "pe_sets" \in DOMAIN event /\ IsList(event.pe_sets) THEN event.pe_sets.list ELSE <<>>

\* How many PE sets of a JSON event say is_preferred: true
PreferredInJson(event) ==
    Cardinality({i \in 1..Len(PeSetsOfJson(event)) :
                    /\ "is_preferred" \in DOMAIN PeSetsOfJson(event)[i]
                    /\ PeSetsOfJson(event)[i].is_preferred = Bool(TRUE)})

\* The events that break no rule but, perhaps, the rule of the preferred set
PreferredFamily == {With(event_example, "pe_sets", List(l)) : l \in PeSetLists}

PreferredError == "ValueError: Exactly one of the pe_sets should be preferred"

\* C1: Event.from_json on an event with a non-empty pe_sets list succeeds, as
\* far as the rule of the preferred set goes, exactly when one PE set has
\* is_preferred true (a set without the key counts as not preferred): a
\* constructed Event with PE sets has exactly one preferred; the error of the
\* rule is raised only for a non-empty list with zero or several preferred,
\* and then no Event is produced; an event that breaks no other rule is
\* constructed if and only if its list is empty or has exactly one preferred;
\* an event without the key pe_sets is constructed.
C1_ExactlyOnePreferred ==
    EventMade =>
      /\ (made.ok /\ Len(PeSetsOfJson(made.arg)) > 0) => PreferredInJson(made.arg) = 1
      /\ made.err = PreferredError =>
            /\ Len(PeSetsOfJson(made.arg)) > 0
            /\ PreferredInJson(made.arg) # 1
      /\ ~made.ok => made.val = Null
      /\ made.arg \in PreferredFamily =>
            /\ made.ok <=> (Len(PeSetsOfJson(made.arg)) = 0 \/ PreferredInJson(made.arg) = 1)
            /\ ~made.ok => made.err = PreferredError
      /\ made.arg = Without(event_example, "pe_sets") => made.ok

\* An Event constructed from several PE sets of which one is preferred
C1_Witness ==
    /\ EventMade /\ made.ok
    /\ made.arg \in PreferredFamily
    /\ Len(PeSetsOfJson(made.arg)) > 1
    /\ PreferredInJson(made.arg) = 1
    /\ Len(made.val.pe_sets.list) = Len(PeSetsOfJson(made.arg))

----------------------------------------------------------------------------
(* Properties of the validation of a document (Spec).                      *)

\* The document has an empty events list, or an event with an empty search list
EmptyMandatoryList(d) ==
    /\ "events" \in DOMAIN d
    /\ IsList(d.events)
    /\ \/ Len(d.events.list) = 0
       \/ \E i \in 1..Len(d.events.list) :
             /\ "search" \in DOMAIN d.events.list[i]
             /\ d.events.list[i].search = List(<<>>)

\* C2: validate_schema on a catalog whose events list is empty, or one of
\* whose events has an empty search list, raises and yields no Catalog,
\* whatever else the document holds.
C2_EmptyListRaises ==
    (strict.st # "none" /\ EmptyMandatoryList(doc0)) =>
        strict.st = "raised" /\ strict.cat = Null

\* A validation that raised for the empty search list of an event
C2_Witness ==
    /\ strict.st = "raised"
    /\ strict.err = "ValueError: Search list is empty."
    /\ EmptyMandatoryList(doc0)
    /\ Len(doc0.events.list) > 0

\* The document has no events key, or an empty events list
NoEvents(d) ==
    \/ "events" \notin DOMAIN d
    \/ IsList(d.events) /\ Len(d.events.list) = 0

\* C3: verify_upload_schema never raises and returns a boolean, false exactly
\* when the document has no events key or an empty events list.
C3_LenientNeverRaises ==
    lenient.st # "none" =>
        /\ lenient.st = "returned"
        /\ lenient.ret = Bool(~NoEvents(doc0))

\* A lenient run ended by an exception on a document with events
C3_Raised ==
    /\ lenient.st = "raised"
    /\ "events" \in DOMAIN doc0 /\ IsList(doc0.events) /\ Len(doc0.events.list) > 0

\* C4: a Catalog that strict validation constructed, written by to_json and
\* read back by Catalog.from_json, is constructed again and equals the
\* original field for field.
C4_RoundTrip ==
    reparsed.st # "none" => (reparsed.st = "ok" /\ reparsed.cat = reparsed.from)

\* The re-parse of a written catalog raised
C4_ReparseRaised ==
    /\ reparsed.st = "raised"
    /\ strict.st = "ok"
    /\ file.written

EventNameFormat(s) ==
    /\ Len(s) \in {8, 15}
    /\ s[1] = "G" /\ s[2] = "W"
    /\ \A i \in 3..8 : s[i] \in Digits
    /\ Len(s) = 15 => (s[9] = "_" /\ \A i \in 10..15 : s[i] \in Digits)

\* The catalog of one event, without PE sets, of the given name
NamedCatalog(n) ==
    With(catalog_example, "events",
         List(<<With(Without(event_example, "pe_sets"), "event_name", Str(n))>>))

UnusualName == Warning("Warning: Unusual name for event", {})

\* C7: an event name is accepted exactly when it is GW and six digits,
\* optionally followed by an underscore and six digits: strict validation
\* constructs the catalog of an event of such a name and raises for any other
\* name, and the lenient run warns of every event_name that is not such a name.
C7_EventNameFormat ==
    \A n \in Names :
        doc0 = NamedCatalog(n) =>
            /\ strict.st # "none" => (strict.st = "ok" <=> EventNameFormat(n))
            /\ lenient.st # "none" =>
                  ((\E i \in 1..Len(lenient.log) : lenient.log[i] = UnusualName)
                       <=> ~EventNameFormat(n))

\* Strict validation raised for the short name, and the lenient run did not
\* warn of an event_name that has not the format
C7_ShortNameRaised ==
    \/ /\ doc0 = NamedCatalog(NameShort)
       /\ strict.st = "raised"
       /\ strict.err = "ValueError: Event name should have format GWYYMMDD_HHMMSS"
    \/ /\ \E n \in Names : doc0 = NamedCatalog(n) /\ ~EventNameFormat(n)
       /\ lenient.st = "returned"
       /\ \A i \in 1..Len(lenient.log) : lenient.log[i] # UnusualName

----------------------------------------------------------------------------
(* Properties of the construction of one ParameterValue (SpecRecords).     *)

ParameterMade == made.st = "done" /\ made.op = "ParameterValue"

\* The whitelist of units of a parameter name; {} for a name that has none
UnitWhitelist(name) ==
    IF name \in {"chirp_mass_source", "chirp_mass", "mass_1_source", "mass_2_source",
                 "total_mass_source", "final_mass_source"}
    THEN {"solMass", "M_sun", "Msun"}
    ELSE IF name = "luminosity_distance" THEN {"Mpc"}
    ELSE IF name = "far" THEN {"1/year"}
    ELSE {}

\* The unit of the keyword arguments passes the whitelist of their name
UnitAllowed(kw) ==
    \/ UnitWhitelist(kw.parameter_name.str) = {}
    \/ /\ "unit" \in DOMAIN kw
       /\ \E u \in UnitWhitelist(kw.parameter_name.str) : kw.unit = Str(u)

BothBounds(kw) ==
    /\ "is_upper_bound" \in DOMAIN kw /\ kw.is_upper_bound = Bool(TRUE)
    /\ "is_lower_bound" \in DOMAIN kw /\ kw.is_lower_bound = Bool(TRUE)

UnitErrors ==
    {"ValueError: parameter needs to have one of mass_units string for unit.",
     "ValueError: luminosity_distance parameter needs to have Mpc unit.",
     "ValueError: far parameter needs to have '1/year' unit."}

----------------------------------------------------------------------------
(* Properties of the formatter (SpecFormat).                               *)

Formatted == fmt.st = "done"

MinError == Min(Abs(fmt.lower), Abs(fmt.upper))

\* ceil(-log10(x)) of x > 0 units of 10^-Scale, by the number of its digits
CeilNegLog10(x) == Scale + 1 - NumDigits(x)

LeadingDigit(x) == x \div (10 ^ (NumDigits(x) - 1))

\* The number m * 10^-e
Decimal(m, e) == m * 10 ^ (Scale - e)

C9_DegenerateFields ==
    (Formatted /\ MinError = 0 /\ fmt.ok) =>
      /\ DOMAIN fmt.res = {"best", "lower_error", "upper_error", "decimal_places"}
      /\ fmt.res.decimal_places = Max(0, CeilNegLog10(Abs(fmt.value)) + 1)
      /\ NumDigits(Abs(fmt.value)) <= 2 => fmt.res.best = fmt.value
      /\ NumDigits(Abs(fmt.lower)) <= 2 => fmt.res.lower_error = -Abs(fmt.lower)
      /\ NumDigits(Abs(fmt.upper)) <= 2 => fmt.res.upper_error = Abs(fmt.upper)

\* A result of the degenerate case without the field best
C9_MedianReturned ==
    /\ Formatted /\ fmt.ok /\ MinError = 0
    /\ "best" \notin DOMAIN fmt.res
    /\ "median" \in DOMAIN fmt.res

\* C10: the formatter returns a result for every value and every pair of
\* errors, value 0 and errors 0 included; it never raises.
C10_Total == Formatted => fmt.ok

\* The formatter raised for the value 0 with an error 0
C10_Raised ==
    /\ Formatted /\ ~fmt.ok
    /\ fmt.value = 0 /\ MinError = 0

\* The rounding precision of the general case: ceil(-log10(min_error)), plus
\* one when the leading digit of min_error is 1
Precision == CeilNegLog10(MinError) + (IF LeadingDigit(MinError) = 1 THEN 1 ELSE 0)

\* The unit of the last place kept at precision p
UnitOf(p) == 10 ^ (Scale - p)

\* The multiples of UnitOf(p) nearest to x: two of them when x is a tie
Nearest(x, p) ==
    {y \in {(x \div UnitOf(p)) * UnitOf(p), (x \div UnitOf(p) + 1) * UnitOf(p)} :
        2 * Abs(x - y) <= UnitOf(p)}

\* x rounded to precision p as Python's round does: the nearest multiple, the
\* even one on a tie the float holds exactly, either one on a tie it does not
RoundedTo(x, p) ==
    IF p >= Scale THEN {x}
    ELSE IF Cardinality(Nearest(x, p)) = 1 \/ ~IsDyadic(x) THEN Nearest(x, p)
    ELSE {y \in Nearest(x, p) : (y \div UnitOf(p)) % 2 = 0}

\* C11: in the general case the bounds reconstruct from the rounded best
\* value: with p the rounding precision, best + upper_error is value + |upper|
\* rounded to p and best + lower_error is value - |lower| rounded to p, for
\* every input, rounding ties included.
C11_BoundsReconstruct ==
    (Formatted /\ MinError > 0 /\ fmt.ok) =>
      /\ fmt.res.best + fmt.res.upper_error
            \in RoundedTo(fmt.value + Abs(fmt.upper), Precision)
      /\ fmt.res.best + fmt.res.lower_error
            \in RoundedTo(fmt.value - Abs(fmt.lower), Precision)

\* 1 with errors (2.5, 2.5): best 1 and upper_error 2 make 3, where 3.5
\* rounds to 4
C11_TieDrift ==
    /\ Formatted /\ fmt.ok
    /\ fmt.value = Decimal(1, 0) /\ fmt.lower = Decimal(25, 1) /\ fmt.upper = Decimal(25, 1)
    /\ fmt.res.best = Decimal(1, 0)
    /\ fmt.res.upper_error = Decimal(2, 0)
    /\ fmt.res.lower_error = Decimal(-2, 0)
    /\ RoundedTo(fmt.value + Abs(fmt.upper), Precision) = {Decimal(4, 0)}

----------------------------------------------------------------------------
(* Properties of the lenient run and of the two modes together (Spec).     *)

\* The keys an event may have
EventKeys == {"event_name", "gps", "event_description", "detectors", "pe_sets", "search"}

InLog(line) == \E j \in 1..Len(lenient.log) : lenient.log[j] = line

\* The lenient run walked the events of the document
Walked == lenient.st = "returned" /\ lenient.ret = Bool(TRUE)

\* C12: the lenient run reports every violation of an event whatever its
\* other violations: each missing mandatory key, the unrecognized keys and an
\* empty list of PE sets each have their warning; in particular an event
\* without pe_sets still has its unrecognized keys reported.
C12_EveryViolationReported ==
    Walked =>
      \A i \in 1..Len(doc0.events.list) :
        LET event == doc0.events.list[i]
        IN /\ \A k \in EventKeys \ DOMAIN event :
                 InLog(Warning("Event missing mandatory key", {k}))
           /\ (DOMAIN event) \ EventKeys # {} =>
                 InLog(Warning("Warning - Unrecognized keys", (DOMAIN event) \ EventKeys))
           /\ ("pe_sets" \in DOMAIN event /\ event.pe_sets = List(<<>>)) =>
                 InLog(Warning("Empty list of PE sets.", {}))

\* A completed lenient run over an event without pe_sets whose unrecognized
\* keys no warning names
C12_KeysNotReported ==
    /\ Walked
    /\ \E i \in 1..Len(doc0.events.list) :
         /\ "pe_sets" \notin DOMAIN doc0.events.list[i]
         /\ (DOMAIN doc0.events.list[i]) \ EventKeys # {}
         /\ ~InLog(Warning("Warning - Unrecognized keys",
                           (DOMAIN doc0.events.list[i]) \ EventKeys))
         /\ \A k \in EventKeys \ DOMAIN doc0.events.list[i] :
               InLog(Warning("Event missing mandatory key", {k}))

\* The warnings of the lenient run
Warnings == {j \in 1..Len(lenient.log) : lenient.log[j].lvl = "WARNING"}

\* C13: the two modes enforce the same constraints: a document strict
\* validation accepts makes the lenient run return true without a warning,
\* and a document strict validation raises for makes the lenient run log at
\* least one warning.
C13_SameConstraints ==
    (strict.st # "none" /\ lenient.st # "none") =>
      /\ strict.st = "ok" => (Walked /\ Warnings = {})
      /\ strict.st = "raised" => Warnings # {}

\* A document strict validation accepted and the lenient run warned about:
\* of keys of the strict schema it does not know, and of keys of its own
\* that the strict schema does not have
C13_AcceptedButWarned ==
    /\ strict.st = "ok"
    /\ Walked
    /\ InLog(Warning("Warning - Unrecognized keys", {"release_date", "schema_version"}))
    /\ InLog(Warning("PE missing mandatory key", {"median"}))

Finalized == Info("Verification finalized.")

\* C15: a lenient run that returns, true or false, has logged the INFO line
\* "Verification finalized." exactly once and as its last line.
C15_FinalizedLast ==
    lenient.st = "returned" =>
      /\ Len(lenient.log) > 0
      /\ lenient.log[Len(lenient.log)] = Finalized
      /\ Cardinality({j \in 1..Len(lenient.log) : lenient.log[j] = Finalized}) = 1

\* A lenient run that returned false without the line
C15_NotFinalized ==
    /\ lenient.st = "returned"
    /\ lenient.ret = Bool(FALSE)
    /\ ~InLog(Finalized)

----------------------------------------------------------------------------
(* core.py: the command line entry point, run in one process any number of *)
(* times.                                                                  *)

\* What the handlers of the logger write for the records logged: each
\* StreamHandler attached writes every record once.
Emit(log, handlers) ==
    Flatten([i \in 1..Len(log) |-> [k \in 1..handlers |-> log[i]]])

InitMain ==
    /\ doc \in CatalogChoices
    /\ doc0 = doc
    /\ calls = 0
    /\ strict = [st |-> "none", err |-> "", cat |-> Null, warned |-> FALSE]
    /\ lenient = [st |-> "none", log |-> <<>>, ret |-> NoRet]
    /\ file = [written |-> FALSE, json |-> Null, from |-> Null]
    /\ reparsed = [st |-> "none", err |-> "", cat |-> Null, from |-> Null]
    /\ made = Idle
    /\ fmt = Idle
    /\ logger = NoHandler

\* _set_logger(): logger.addHandler(handler), a new StreamHandler(sys.stdout)
SetLogger ==
    /\ logger.handlers < MaxSetups
    /\ logger' = [logger EXCEPT !.handlers = logger.handlers + 1]
    /\ UNCHANGED <<doc, doc0, calls, strict, lenient, file, reparsed, made, fmt>>

\* main(): _set_logger(), then verify_upload_schema(newcat) on the document
\* of the file
Main ==
    /\ logger.handlers < MaxSetups
    /\ \E r \in {verify_upload_schema(doc)} :
          /\ lenient' = [st |-> IF r.raised THEN "raised" ELSE "returned",
                         log |-> r.log, ret |-> r.ret]
          /\ logger' = [handlers |-> logger.handlers + 1,
                        log |-> r.log,
                        stdout |-> Emit(r.log, logger.handlers + 1)]
    /\ UNCHANGED <<doc, doc0, calls, strict, file, reparsed, made, fmt>>

NextMain == SetLogger \/ Main

SpecMain == InitMain /\ [][NextMain]_vars

\* C14: however often the logger is set up, it has at most one handler, and
\* every record of a run is written to standard output exactly once.
C14_OneHandler ==
    /\ logger.handlers <= 1
    /\ logger.stdout = logger.log

\* A second run of main in the process: two handlers, every line written twice
C14_WrittenTwice ==
    /\ logger.handlers = 2
    /\ Len(logger.log) > 0
    /\ logger.stdout = Emit(logger.log, 2)
    /\ Len(logger.stdout) = 2 * Len(logger.log)

----------------------------------------------------------------------------
(* schema.py: ParameterValue.from_series, the construction of a value from *)
(* posterior samples.                                                      *)

\* UNITS
UNITS ==
    [n \in {"chirp_mass_source", "chirp_mass", "mass_1_source", "mass_2_source",
            "total_mass_source"} |-> Str("Msun")]
    @@ [luminosity_distance |-> Str("Mpc"), far |-> Str("1/year")]

\* UNITS.get(parameter_name)
UNITS_get(parameter_name) ==
    IF parameter_name \in DOMAIN UNITS THEN UNITS[parameter_name] ELSE Null

\* The keyword arguments the formatter's result makes: its keys, each with
\* its number
Kwargs(res) == DictOf([k \in DOMAIN res |-> Num(res[k])], DOMAIN res)

\* ParameterValue.from_series(parameter_name, series), given the quantiles
\* 0.05, 0.5 and 0.95 of the series
ParameterValue_from_series(parameter_name, q05, median, q95, ties) ==
    Let(_condition_value_and_error(median, median - q05, q95 - median, ties),
        LAMBDA kwargs :
          IF ~kwargs.ok THEN kwargs
          ELSE ParameterValue(("parameter_name" :> Str(parameter_name))
                              @@ ("unit" :> UNITS_get(parameter_name))
                              @@ Kwargs(kwargs.val)))

\* The quantiles of the series of the model: a median and the distances of
\* the two other quantiles from it
Quantiles ==
    {[q05 |-> m - lo, median |-> m, q95 |-> m + hi] :
        m \in Decimals({0, 334}), lo \in Decimals({0, 12}), hi \in Decimals({0, 12})}

InitSeries ==
    /\ made \in {Input("ParameterValue.from_series", [parameter_name |-> n, series |-> q]) :
                    n \in ParameterNames, q \in Quantiles}
    /\ doc = NoDoc /\ doc0 = NoDoc /\ calls = 0
    /\ strict = [st |-> "none", err |-> "", cat |-> Null, warned |-> FALSE]
    /\ lenient = [st |-> "none", log |-> <<>>, ret |-> NoRet]
    /\ file = [written |-> FALSE, json |-> Null, from |-> Null]
    /\ reparsed = [st |-> "none", err |-> "", cat |-> Null, from |-> Null]
    /\ fmt = Idle
    /\ logger = NoHandler

\* ParameterValue.from_series(parameter_name, series)
FromSeries ==
    /\ made.st = "input" /\ made.op = "ParameterValue.from_series"
    /\ \E ties \in [1..3 -> BOOLEAN] :
       \E r \in {ParameterValue_from_series(made.arg.parameter_name, made.arg.series.q05,
                                            made.arg.series.median, made.arg.series.q95,
                                            ties)} :
          made' = [made EXCEPT !.st = "done", !.ok = r.ok, !.err = r.err, !.val = r.val]
    /\ UNCHANGED <<doc, doc0, calls, strict, lenient, file, reparsed, fmt, logger>>

NextSeries == FromSeries

SpecSeries == InitSeries /\ [][NextSeries]_vars

SeriesMade == made.st = "done" /\ made.op = "ParameterValue.from_series"

\* C17: for every parameter name whose unit __post_init__ checks, the unit
\* from_series takes from UNITS passes the check: from_series raises no unit
\* error.
C17_DefaultUnitsPass ==
    SeriesMade =>
      (UnitWhitelist(made.arg.parameter_name) # {} => made.err \notin UnitErrors)

\* from_series raised the unit error for final_mass_source, a name UNITS
\* does not have
C17_FinalMassRaised ==
    /\ SeriesMade /\ ~made.ok
    /\ made.arg.parameter_name = "final_mass_source"
    /\ made.arg.parameter_name \notin DOMAIN UNITS
    /\ made.err = "ValueError: parameter needs to have one of mass_units string for unit."

====
